---- MODULE Spec2Model ----
(***************************************************************************)
(* rcache: a tiered read-through cache.                                    *)
(*   Entry Store        src/src/in_memory_cache.rs  (InMemoryCache)        *)
(*   Persistent Store   src/src/kv_cache.rs         (KvCache over redis)   *)
(*   Cache Orchestrator src/src/cache_service.rs    (CacheService)         *)
(* Strings are TLA+ strings ("" is the empty string), u64 values are       *)
(* naturals kept far below 2^64 by the bounds, maps are functions whose    *)
(* DOMAIN is the set of keys present.                                      *)
(***************************************************************************)
EXTENDS Naturals, FiniteSets, Sequences, TLC

VARIABLES
    now,      \* the clock, whole seconds (TimeSource::now)
    values,   \* values[i]: InMemoryCache.values of store i, key -> CacheValue
    hits,     \* hits[i]: InMemoryCache.hits of store i
    last,     \* the InMemoryCache::resolve call that has just returned: payload and result
    kv,       \* the redis server behind KvCache.con: key -> value and expiry time
    svcTtl,   \* svcTtl[i]: CacheService.ttl of service i
    pc,       \* pc[i]: where service i is in CacheService::resolve
    call      \* call[i]: the locals of service i's call and what the call has done so far

vars == <<now, values, hits, last, kv, svcTtl, pc, call>>
storeVars == <<values, hits, last>>
svcVars == <<kv, svcTtl, pc, call>>

----------------------------------------------------------------------------
(* Bounds of the exploration *)

\* the clock runs from 0 to MaxTime
MaxTime == 2
\* payload ttls run up to MaxTtl
MaxTtl == 2
\* calls are explored while the counter is within MaxRun of a multiple of SweepPeriod
MaxRun == 1

\* `*hits % 50000 == 0`
SweepPeriod == 50000

Keys == {"", "k1", "k2"}
Values == {"v1", "v2"}
\* payload.ttl of the direct calls: none, one second, the longest
Ttls == {0, 1, MaxTtl}
\* the store the direct calls are made on
Stores == {"A"}

\* the cache services, each with an InMemoryCache of its own, sharing one redis
Services == {"A", "B"}
\* keys given to CacheService::resolve
SvcKeys == {"k1"}
\* what a resolver closure may return
Computed == {"", "v1", "v2"}
\* CacheService.ttl
SvcTtls == 1..MaxTtl

EmptyMap == [k \in {} |-> k]

----------------------------------------------------------------------------
(* InMemoryCache *)

\* struct CacheValue { value, timestamp, ttl }
CacheValue(value, timestamp, ttl) ==
    [value |-> value, timestamp |-> timestamp, ttl |-> ttl]

\* Result<String, CacheError>
Ok(v) == [ok |-> TRUE, val |-> v]
Err(e) == [ok |-> FALSE, val |-> e]

\* faulty variant: the sweep keeps an entry through the second it expires in
RetainLate(vals, t) ==
    [k \in {x \in DOMAIN vals : t <= vals[x].timestamp + vals[x].ttl} |-> vals[k]]

\* values.retain(|_, value| now < value.timestamp + value.ttl)
Retain(vals, t) ==
    [k \in {x \in DOMAIN vals : t < vals[x].timestamp + vals[x].ttl} |-> vals[k]]

\* values.remove(key)
Remove(vals, key) == [k \in (DOMAIN vals) \ {key} |-> vals[k]]

\* faulty variant: the lazy check uses > where the code uses >=
LazyCheckLate(vals, key, t) ==
    IF key \in DOMAIN vals /\ t > vals[key].timestamp + vals[key].ttl
    THEN Remove(vals, key)
    ELSE vals

\* else if let Some(cached_value) = values.get(key) { if now >= ... { values.remove(key) } }
LazyCheck(vals, key, t) ==
    IF key \in DOMAIN vals /\ t >= vals[key].timestamp + vals[key].ttl
    THEN Remove(vals, key)
    ELSE vals

\* faulty variant: the sweep runs on every call
EvictAlwaysSweep(vals, h, key, t) == Retain(vals, t)

\* faulty variant: the else branch (the lazy check) is missing
EvictSweepOnly(vals, h, key, t) ==
    IF h % SweepPeriod = 0 THEN Retain(vals, t) ELSE vals

\* if *hits % 50000 == 0 { retain } else if ... { lazy check }
Evict(vals, h, key, t) ==
    IF h % SweepPeriod = 0 THEN Retain(vals, t) ELSE LazyCheck(vals, key, t)

\* faulty variant: values.insert(key, ..) in place of entry(key).or_insert_with(..)
OrInsertOverwrite(vals, key, value, ttl, t) ==
    [k \in (DOMAIN vals) \cup {key} |->
        IF k = key THEN CacheValue(value, t, ttl) ELSE vals[k]]

\* values.entry(key).or_insert_with(|| CacheValue { value, timestamp: now, ttl })
OrInsert(vals, key, value, ttl, t) ==
    IF key \in DOMAIN vals
    THEN vals
    ELSE [k \in (DOMAIN vals) \cup {key} |->
            IF k = key THEN CacheValue(value, t, ttl) ELSE vals[k]]

\* faulty variant: the counter is incremented before the empty key is rejected
InMemResolveCountsFirst(vals, h, key, value, ttl, t) ==
    LET h1 == h + 1
        v1 == Evict(vals, h1, key, t)
        v2 == OrInsert(v1, key, value, ttl, t)
    IN IF key = ""
       THEN [values |-> vals, hits |-> h1, res |-> Err("EmptyKey")]
       ELSE [values |-> v2, hits |-> h1, res |-> Ok(v2[key].value)]

\* InMemoryCache::resolve: the store after the call and the call's result
InMemResolve(vals, h, key, value, ttl, t) ==
    IF key = ""
    THEN [values |-> vals, hits |-> h, res |-> Err("EmptyKey")]
    ELSE LET h1 == h + 1
             v1 == Evict(vals, h1, key, t)
             v2 == OrInsert(v1, key, value, ttl, t)
         IN [values |-> v2, hits |-> h1, res |-> Ok(v2[key].value)]

\* the counter is within MaxRun of a multiple of SweepPeriod
NearSweep(h) ==
    \/ h % SweepPeriod < MaxRun
    \/ h % SweepPeriod >= SweepPeriod - MaxRun

\* the counters set_hits is given: just below the first and the second multiple
HitsInputs == UNION {{SweepPeriod - d, SweepPeriod + SweepPeriod - d} : d \in 1..MaxRun}

\* `last` when no direct call has just returned
NoCall == [store |-> "A", key |-> "", value |-> "", ttl |-> 0, res |-> Err("NoCall"),
           pre |-> "none", sweep |-> FALSE, evicted |-> {}]

----------------------------------------------------------------------------
(* KvCache over redis *)

\* Option<String>
Some(v) == [some |-> TRUE, val |-> v]
None == [some |-> FALSE, val |-> ""]

\* what `self.con.get(key).unwrap_or_else(|_| "".to_string())` reads: the value of
\* a key that has not expired; "" for a missing or expired key and for a failed command
RedisGet(store, key, t, ok) ==
    IF ok /\ key \in DOMAIN store /\ t < store[key].exp
    THEN store[key].value
    ELSE ""

\* redis after `set_ex(key, value, ttl)`
RedisSetEx(store, key, value, ttl, t) ==
    [k \in (DOMAIN store) \cup {key} |->
        IF k = key THEN [value |-> value, exp |-> t + ttl] ELSE store[k]]

\* KvCache::get as the Persistent Store Adapter's contract states it: the stored
\* value if present and non-empty, none otherwise, never an error
KvGet(store, key, t, ok) ==
    LET res == RedisGet(store, key, t, ok)
    IN IF res = "" THEN None ELSE Some(res)

\* InMemoryCache::get, the orchestrator's query of the Entry Store: the value of
\* the entry under key if that entry is live; the store is left as it is
InMemGet(vals, key, t) ==
    IF key \in DOMAIN vals /\ t < vals[key].timestamp + vals[key].ttl
    THEN Some(vals[key].value)
    ELSE None

----------------------------------------------------------------------------
(* CacheService::resolve *)

\* what the map held under `key` when the call read the clock
PreOf(vals, key, t) ==
    IF key \notin DOMAIN vals THEN "absent"
    ELSE IF t < vals[key].timestamp + vals[key].ttl THEN "live" ELSE "stale"

NoRes == Err("pending")

\* call[i] before service i has been called; store0 is the Entry Store of the
\* service as the call found it, pre what it held under the key at that time
NoSvcCall == [key |-> "", value |-> "", computes |-> 0, mem |-> "none",
              kvl |-> "none", wrote |-> <<>>, tset |-> 0, res |-> NoRes,
              fresh |-> FALSE, until |-> 0, prev |-> None, prevUntil |-> 0,
              store0 |-> [values |-> EmptyMap, hits |-> 0], pre |-> "none"]

\* faulty variant: the Entry Store is written before the Persistent Store
WriteOrderMemFirst == <<"mem_resolve", "kv_resolve">>

\* the two writes after `let value = resolver();`, in program order
WriteOrder == <<"kv_resolve", "mem_resolve">>

\* the statement reached when the writes in `done` have returned Ok
NextWrite(done) ==
    IF Len(done) < Len(WriteOrder) THEN WriteOrder[Len(done) + 1] ELSE "done"

\* the call record when one more write has returned Ok; after the last one the
\* call returns `Ok(value)` (line 66)
Written(c, w) ==
    [c EXCEPT !.wrote = Append(c.wrote, w),
              !.res = IF NextWrite(Append(c.wrote, w)) = "done"
                      THEN Ok(c.value) ELSE c.res]

\* faulty variant: a hit in the Entry Store is treated as a miss
AfterMemGetThrough(m) == [pc |-> "kv_get", res |-> NoRes]

\* faulty variant: the value found in the Entry Store is recomputed
AfterMemGetRecompute(m) == [pc |-> "compute", res |-> NoRes]

\* let memory_value = self.in_memory_cache.get(key); if let Some(value) = .. { return Ok(value) }
AfterMemGet(m) ==
    IF m.some THEN [pc |-> "done", res |-> Ok(m.val)]
    ELSE [pc |-> "kv_get", res |-> NoRes]

\* faulty variant: the resolver runs whatever the Persistent Store answered
AfterKvGetComputes(k) == [pc |-> "compute", res |-> NoRes]

\* let kv_value = self.kv_cache.get(key); if let Some(value) = .. { return Ok(value) }
AfterKvGet(k) ==
    IF k.some THEN [pc |-> "done", res |-> Ok(k.val)]
    ELSE [pc |-> "compute", res |-> NoRes]

\* what is remembered of a call once something else has happened after its
\* return: its key, its result and the expiry time of the entry that served it
Summary(c) ==
    [NoSvcCall EXCEPT !.key = c.key, !.res = c.res, !.until = c.until]

\* the call records with the calls that have returned summarised
Forget(cl) ==
    [k \in Services |-> IF pc[k] = "done" THEN Summary(cl[k]) ELSE cl[k]]

\* redis drops the keys whose expiry time has been reached
RedisExpire(store, t) ==
    [k \in {x \in DOMAIN store : t < store[x].exp} |-> store[k]]

\* the result of the service's previous call, when that call succeeded on this key
PrevOf(c, key) ==
    IF c.res.ok /\ c.key = key THEN Some(c.res.val) ELSE None

\* the key is in neither tier
AbsentInBoth(i, key) ==
    /\ key \notin DOMAIN values[i]
    /\ key \notin DOMAIN kv

\* resolve is entered and queries the Entry Store (lines 36-40)
Start(i, key) ==
    /\ pc[i] \in {"idle", "done"}
    /\ LET m == InMemGet(values[i], key, now)
           a == AfterMemGet(m)
           p == PrevOf(call[i], key)
       IN /\ pc' = [pc EXCEPT ![i] = a.pc]
          /\ call' = [Forget(call) EXCEPT ![i] =
                [key |-> key, value |-> "", computes |-> 0,
                 mem |-> IF m.some THEN "hit" ELSE "miss",
                 kvl |-> "none", wrote |-> <<>>, tset |-> 0, res |-> a.res,
                 fresh |-> AbsentInBoth(i, key),
                 until |-> IF m.some
                           THEN values[i][key].timestamp + values[i][key].ttl
                           ELSE 0,
                 prev |-> p,
                 prevUntil |-> IF p.some THEN call[i].until ELSE 0,
                 store0 |-> [values |-> values[i], hits |-> hits[i]],
                 pre |-> PreOf(values[i], key, now)]]
    /\ UNCHANGED <<now, storeVars, kv, svcTtl>>

\* faulty variant: a hit in the Persistent Store is written back into the Entry Store
KvGetStepWarm(i, ok) ==
    /\ pc[i] = "kv_get"
    /\ LET k == KvGet(kv, call[i].key, now, ok)
           a == AfterKvGet(k)
           r == InMemResolve(values[i], hits[i], call[i].key, k.val, svcTtl[i], now)
       IN /\ pc' = [pc EXCEPT ![i] = a.pc]
          /\ call' = [Forget(call) EXCEPT ![i].kvl = IF k.some THEN "hit" ELSE "miss",
                                  ![i].res = a.res,
                                  ![i].until = IF k.some THEN kv[call[i].key].exp ELSE 0]
          /\ values' = IF k.some THEN [values EXCEPT ![i] = r.values] ELSE values
          /\ hits' = IF k.some THEN [hits EXCEPT ![i] = r.hits] ELSE hits
    /\ UNCHANGED <<now, last, kv, svcTtl>>

\* the Persistent Store is queried (lines 42-46); ok: the GET command succeeds
KvGetStep(i, ok) ==
    /\ pc[i] = "kv_get"
    /\ LET k == KvGet(kv, call[i].key, now, ok)
           a == AfterKvGet(k)
       IN /\ pc' = [pc EXCEPT ![i] = a.pc]
          /\ call' = [Forget(call) EXCEPT ![i].kvl = IF k.some THEN "hit" ELSE "miss",
                                  ![i].res = a.res,
                                  ![i].until = IF k.some THEN kv[call[i].key].exp ELSE 0]
    /\ UNCHANGED <<now, storeVars, kv, svcTtl>>

\* faulty variant: a call that finds another call computing for the same key
\* takes that call's value and does not run its own resolver
ComputeStepDedup(i, v) ==
    /\ pc[i] = "compute"
    /\ pc' = [pc EXCEPT ![i] = NextWrite(call[i].wrote)]
    /\ LET others == {j \in Services \ {i} :
                         /\ call[j].key = call[i].key
                         /\ call[j].computes = 1
                         /\ pc[j] \notin {"idle", "done"}}
       IN IF others = {}
          THEN call' = [Forget(call) EXCEPT ![i].value = v,
                                           ![i].computes = call[i].computes + 1]
          ELSE call' = [Forget(call) EXCEPT ![i].value =
                                              call[CHOOSE j \in others : TRUE].value]
    /\ UNCHANGED <<now, storeVars, kv, svcTtl>>

\* let value = resolver(); (line 47)
ComputeStep(i, v) ==
    /\ pc[i] = "compute"
    /\ pc' = [pc EXCEPT ![i] = NextWrite(call[i].wrote)]
    /\ call' = [Forget(call) EXCEPT ![i].value = v,
                            ![i].computes = call[i].computes + 1]
    /\ UNCHANGED <<now, storeVars, kv, svcTtl>>

\* KvCache::resolve, its read (kv_cache.rs line 35-36 and 42); ok: the GET command succeeds
KvResolveGetStep(i, ok) ==
    /\ pc[i] = "kv_resolve"
    /\ LET res == RedisGet(kv, call[i].key, now, ok)
       IN IF res = ""
          THEN /\ pc' = [pc EXCEPT ![i] = "kv_setex"]
               /\ call' = Forget(call)
          ELSE /\ pc' = [pc EXCEPT ![i] = NextWrite(Append(call[i].wrote, "kv_kept"))]
               /\ call' = [Forget(call) EXCEPT ![i] = Written(call[i], "kv_kept")]
    /\ UNCHANGED <<now, storeVars, kv, svcTtl>>

\* faulty variant: the error of a failed SETEX is dropped and the call goes on
KvSetExStepSwallow(i, ok) ==
    /\ pc[i] = "kv_setex"
    /\ kv' = IF ok THEN RedisSetEx(kv, call[i].key, call[i].value, svcTtl[i], now) ELSE kv
    /\ LET w == IF ok THEN "kv_set" ELSE "kv_fail"
       IN /\ pc' = [pc EXCEPT ![i] = NextWrite(Append(call[i].wrote, "kv_set"))]
          /\ call' = [Forget(call) EXCEPT ![i] = [Written(call[i], w) EXCEPT !.tset = now]]
    /\ UNCHANGED <<now, storeVars, svcTtl>>

\* KvCache::resolve, its write (kv_cache.rs lines 37-40) and `.map_err(..)?` in
\* CacheService::resolve; ok: the SETEX command succeeds
KvSetExStep(i, ok) ==
    /\ pc[i] = "kv_setex"
    /\ IF ok
       THEN /\ kv' = RedisSetEx(kv, call[i].key, call[i].value, svcTtl[i], now)
            /\ pc' = [pc EXCEPT ![i] = NextWrite(Append(call[i].wrote, "kv_set"))]
            /\ call' = [Forget(call) EXCEPT ![i] = [Written(call[i], "kv_set") EXCEPT !.tset = now]]
       ELSE /\ kv' = kv
            /\ pc' = [pc EXCEPT ![i] = "done"]
            /\ call' = [Forget(call) EXCEPT ![i].res = Err("KvCacheError"),
                                    ![i].wrote = Append(call[i].wrote, "kv_fail")]
    /\ UNCHANGED <<now, storeVars, svcTtl>>

\* self.in_memory_cache.resolve(..).map_err(..)? (lines 57-64)
MemResolveStep(i) ==
    /\ pc[i] = "mem_resolve"
    /\ LET r == InMemResolve(values[i], hits[i], call[i].key, call[i].value,
                             svcTtl[i], now)
           k == call[i].key
       IN /\ values' = [values EXCEPT ![i] = r.values]
          /\ hits' = [hits EXCEPT ![i] = r.hits]
          /\ IF r.res.ok
             THEN /\ pc' = [pc EXCEPT ![i] = NextWrite(Append(call[i].wrote, "mem"))]
                  /\ call' = [Forget(call) EXCEPT ![i] =
                        [Written(call[i], "mem") EXCEPT
                            !.until = r.values[k].timestamp + r.values[k].ttl]]
             ELSE /\ pc' = [pc EXCEPT ![i] = "done"]
                  /\ call' = [Forget(call) EXCEPT ![i].res = Err("InMemoryCacheError")]
    /\ UNCHANGED <<now, last, kv, svcTtl>>

\* a service is called while no other service is inside resolve
SeqStart(i, key) ==
    /\ \A j \in Services : pc[j] \in {"idle", "done"}
    /\ Start(i, key)

\* time passes while services are called
SvcTick ==
    /\ now < MaxTime
    /\ now' = now + 1
    /\ kv' = RedisExpire(kv, now + 1)
    /\ call' = Forget(call)
    /\ UNCHANGED <<storeVars, svcTtl, pc>>

\* CacheService::new(ttl) for each service, redis empty
InitSvc ==
    /\ now = 0
    /\ values = [i \in Services |-> EmptyMap]
    /\ hits = [i \in Services |-> 0]
    /\ last = NoCall
    /\ kv = EmptyMap
    /\ svcTtl \in [Services -> SvcTtls]
    /\ pc = [i \in Services |-> "idle"]
    /\ call = [i \in Services |-> NoSvcCall]

\* calls one after another, every redis command succeeding
NextSvc ==
    \/ \E i \in Services, key \in SvcKeys : SeqStart(i, key)
    \/ \E i \in Services : KvGetStep(i, TRUE)
    \/ \E i \in Services, v \in Computed : ComputeStep(i, v)
    \/ \E i \in Services : KvResolveGetStep(i, TRUE)
    \/ \E i \in Services : KvSetExStep(i, TRUE)
    \/ \E i \in Services : MemResolveStep(i)
    \/ SvcTick

SpecSvc == InitSvc /\ [][NextSvc]_vars

\* the service whose calls meet failing redis commands, and the keys it is given
FailServices == {"A"}
FailKeys == {"", "k1"}

\* calls one after another, any redis command failing or succeeding
NextFail ==
    \/ \E i \in FailServices, key \in FailKeys : SeqStart(i, key)
    \/ \E i \in FailServices, ok \in BOOLEAN : KvGetStep(i, ok)
    \/ \E i \in FailServices, v \in Computed : ComputeStep(i, v)
    \/ \E i \in FailServices, ok \in BOOLEAN : KvResolveGetStep(i, ok)
    \/ \E i \in FailServices, ok \in BOOLEAN : KvSetExStep(i, ok)
    \/ \E i \in FailServices : MemResolveStep(i)
    \/ SvcTick

SpecFail == InitSvc /\ [][NextFail]_vars

\* what the resolver closures of racing calls return
RaceComputed == {"v1", "v2"}

\* the services called from threads of their own, every redis command succeeding:
\* the steps of their calls interleave freely
NextConc ==
    \/ \E i \in Services, key \in SvcKeys : Start(i, key)
    \/ \E i \in Services : KvGetStep(i, TRUE)
    \/ \E i \in Services, v \in RaceComputed : ComputeStep(i, v)
    \/ \E i \in Services : KvResolveGetStep(i, TRUE)
    \/ \E i \in Services : KvSetExStep(i, TRUE)
    \/ \E i \in Services : MemResolveStep(i)
    \/ SvcTick

SpecConc == InitSvc /\ [][NextConc]_vars

----------------------------------------------------------------------------
(* KvCache driven directly, as its tests drive it: each connection i calls
   KvCache::resolve with a ttl of svcTtl[i] *)

\* payload values of the direct calls
KvValues == {"v1", "v2"}

\* cache.resolve(ResolvePayload { key, value, ttl }) is entered
KvResolveStart(i, key, value) ==
    /\ pc[i] \in {"idle", "done"}
    /\ pc' = [pc EXCEPT ![i] = "kvd_get"]
    /\ call' = [Forget(call) EXCEPT ![i] =
                   [NoSvcCall EXCEPT !.key = key, !.value = value, !.kvl = "direct"]]
    /\ UNCHANGED <<now, storeVars, kv, svcTtl>>

\* let res: String = self.con.get(key).unwrap_or_else(..); if res.is_empty() {..} Ok(res)
\* (lines 35-36 and 42); ok: the GET command succeeds (kvl remembers a failed one)
KvResolveGet(i, ok) ==
    /\ pc[i] = "kvd_get"
    /\ LET res == RedisGet(kv, call[i].key, now, ok)
       IN IF res = ""
          THEN /\ pc' = [pc EXCEPT ![i] = "kvd_setex"]
               /\ call' = [Forget(call) EXCEPT ![i].kvl =
                                IF ok THEN "direct" ELSE "get_failed"]
          ELSE /\ pc' = [pc EXCEPT ![i] = "done"]
               /\ call' = [Forget(call) EXCEPT ![i].res = Ok(res),
                                       ![i].wrote = <<"kv_kept">>]
    /\ UNCHANGED <<now, storeVars, kv, svcTtl>>

\* self.con.set_ex(key, value, ttl).map_err(KvError::CommandFailed)?; return Ok(value)
\* (lines 37-40); ok: the SETEX command succeeds
KvResolveSetEx(i, ok) ==
    /\ pc[i] = "kvd_setex"
    /\ pc' = [pc EXCEPT ![i] = "done"]
    /\ IF ok
       THEN /\ kv' = RedisSetEx(kv, call[i].key, call[i].value, svcTtl[i], now)
            /\ call' = [Forget(call) EXCEPT ![i].res = Ok(call[i].value),
                                    ![i].wrote = <<"kv_set">>,
                                    ![i].tset = now]
       ELSE /\ kv' = kv
            /\ call' = [Forget(call) EXCEPT ![i].res = Err("CommandFailed"),
                                    ![i].wrote = <<"kv_fail">>]
    /\ UNCHANGED <<now, storeVars, svcTtl>>

\* connections used from threads of their own, every redis command succeeding
NextKv ==
    \/ \E i \in Services, key \in SvcKeys, value \in KvValues : KvResolveStart(i, key, value)
    \/ \E i \in Services : KvResolveGet(i, TRUE)
    \/ \E i \in Services : KvResolveSetEx(i, TRUE)
    \/ SvcTick

SpecKv == InitSvc /\ [][NextKv]_vars

\* one connection after another, any redis command failing or succeeding
NextKvFail ==
    \/ \E i \in Services, key \in SvcKeys, value \in KvValues :
          /\ \A j \in Services : pc[j] \in {"idle", "done"}
          /\ KvResolveStart(i, key, value)
    \/ \E i \in Services, ok \in BOOLEAN : KvResolveGet(i, ok)
    \/ \E i \in Services, ok \in BOOLEAN : KvResolveSetEx(i, ok)
    \/ SvcTick

SpecKvFail == InitSvc /\ [][NextKvFail]_vars

----------------------------------------------------------------------------
(* The Entry Store driven directly, as its tests drive it *)

\* InMemoryCache::new / new_with_time_source(MockTimeSource::new(0))
InitStore ==
    /\ now = 0
    /\ values = [i \in Services |-> EmptyMap]
    /\ hits = [i \in Services |-> 0]
    /\ last = NoCall
    /\ kv = EmptyMap
    /\ svcTtl = [i \in Services |-> 1]
    /\ pc = [i \in Services |-> "idle"]
    /\ call = [i \in Services |-> NoSvcCall]

\* cache.resolve(ResolvePayload { key, value, ttl })
Resolve(i, key, value, ttl) ==
    /\ NearSweep(hits[i])
    /\ LET r == InMemResolve(values[i], hits[i], key, value, ttl, now)
       IN /\ values' = [values EXCEPT ![i] = r.values]
          /\ hits' = [hits EXCEPT ![i] = r.hits]
          /\ last' = [store |-> i, key |-> key, value |-> value, ttl |-> ttl, res |-> r.res,
                      pre |-> PreOf(values[i], key, now),
                      sweep |-> (key # "" /\ r.hits % SweepPeriod = 0),
                      evicted |-> IF key = "" THEN {}
                                  ELSE (DOMAIN values[i]) \
                                       DOMAIN Evict(values[i], r.hits, key, now)]
    /\ UNCHANGED <<now, svcVars>>

\* tests::set_hits
SetHits(i, h) ==
    /\ hits[i] # h
    /\ hits' = [hits EXCEPT ![i] = h]
    /\ last' = NoCall
    /\ UNCHANGED <<now, values, svcVars>>

\* MockTimeSource::advance / the wall clock passing
Tick ==
    /\ now < MaxTime
    /\ now' = now + 1
    /\ last' = NoCall
    /\ UNCHANGED <<values, hits, svcVars>>

NextStore ==
    \/ \E i \in Stores, key \in Keys, value \in Values, ttl \in Ttls :
          Resolve(i, key, value, ttl)
    \/ \E i \in Stores, h \in HitsInputs : SetHits(i, h)
    \/ Tick

SpecStore == InitStore /\ [][NextStore]_vars

----------------------------------------------------------------------------
(* InMemoryCache::resolve statement by statement, called from several threads on
   one store: thread i calls with the value ThreadValue(i) and a ttl of
   svcTtl[i]; pc[i] is the statement the thread executes next, and a mutex is
   held by the thread whose pc is between the lock() and the drop of the guard *)

Threads == {"A", "B"}
\* the store the threads share
Shared == "A"
LockKeys == {"", "k1", "k2"}
\* payload.value of thread i's calls
ThreadValue(i) == IF i = "A" THEN "v1" ELSE "v2"

\* `hits` (line 56) is locked by thread i until the guard is dropped at the return
HoldsHits(i) ==
    pc[i] \in {"values_lock", "incr", "now", "evict", "insert", "drop_values", "drop_hits"}

\* `values` is locked by thread i: in resolve (line 57) its guard, declared after
\* that of `hits`, is dropped first; a reader (lines 111-123) holds it while it reads
HoldsValues(i) ==
    pc[i] \in {"incr", "now", "evict", "insert", "drop_values", "rd_read"}

\* if payload.key.is_empty() { return Err(CacheError::EmptyKey); } (lines 52-54)
LkStart(i, key) ==
    /\ pc[i] \in {"idle", "done"}
    /\ NearSweep(hits[Shared])
    /\ pc' = [pc EXCEPT ![i] = IF key = "" THEN "done" ELSE "hits_lock"]
    /\ call' = [call EXCEPT ![i] =
                   [NoSvcCall EXCEPT !.key = key, !.value = ThreadValue(i), !.kvl = "thread",
                                     !.res = IF key = "" THEN Err("EmptyKey") ELSE NoRes]]
    /\ UNCHANGED <<now, storeVars, kv, svcTtl>>

\* faulty variant: the counter's mutex is taken without waiting for its holder
LkHitsNoWait(i) ==
    /\ pc[i] = "hits_lock"
    /\ pc' = [pc EXCEPT ![i] = "values_lock"]
    /\ call' = [call EXCEPT ![i].store0 =
                   [values |-> values[Shared], hits |-> hits[Shared]]]
    /\ UNCHANGED <<now, storeVars, kv, svcTtl>>

\* let mut hits = self.hits.lock().unwrap(); (line 56); store0 is the store as
\* the thread finds it when it gets the lock
LkHits(i) ==
    /\ pc[i] = "hits_lock"
    /\ \A j \in Threads : ~HoldsHits(j)
    /\ pc' = [pc EXCEPT ![i] = "values_lock"]
    /\ call' = [call EXCEPT ![i].store0 =
                   [values |-> values[Shared], hits |-> hits[Shared]]]
    /\ UNCHANGED <<now, storeVars, kv, svcTtl>>

\* let mut values = self.values.lock().unwrap(); (line 57)
LkValues(i) ==
    /\ pc[i] = "values_lock"
    /\ \A j \in Threads : ~HoldsValues(j)
    /\ pc' = [pc EXCEPT ![i] = "incr"]
    /\ UNCHANGED <<now, storeVars, kv, svcTtl, call>>

\* *hits += 1; (line 58)
LkIncr(i) ==
    /\ pc[i] = "incr"
    /\ hits' = [hits EXCEPT ![Shared] = hits[Shared] + 1]
    /\ pc' = [pc EXCEPT ![i] = "now"]
    /\ UNCHANGED <<now, values, last, kv, svcTtl, call>>

\* let now = self.time_source.now(); (line 59)
LkNow(i) ==
    /\ pc[i] = "now"
    /\ call' = [call EXCEPT ![i].tset = now]
    /\ pc' = [pc EXCEPT ![i] = "evict"]
    /\ UNCHANGED <<now, storeVars, kv, svcTtl>>

\* the sweep or the lazy check (lines 61-67)
LkEvict(i) ==
    /\ pc[i] = "evict"
    /\ values' = [values EXCEPT ![Shared] =
                     Evict(values[Shared], hits[Shared], call[i].key, call[i].tset)]
    /\ pc' = [pc EXCEPT ![i] = "insert"]
    /\ UNCHANGED <<now, hits, last, kv, svcTtl, call>>

\* Ok(values.entry(..).or_insert_with(..).value.to_owned()) (lines 69-77)
LkInsert(i) ==
    /\ pc[i] = "insert"
    /\ LET v == OrInsert(values[Shared], call[i].key, call[i].value, svcTtl[i],
                         call[i].tset)
       IN /\ values' = [values EXCEPT ![Shared] = v]
          /\ call' = [call EXCEPT ![i].res = Ok(v[call[i].key].value)]
    /\ pc' = [pc EXCEPT ![i] = "drop_values"]
    /\ UNCHANGED <<now, hits, last, kv, svcTtl>>

\* the guard of `values` goes out of scope (line 78)
LkDropValues(i) ==
    /\ pc[i] = "drop_values"
    /\ pc' = [pc EXCEPT ![i] = "drop_hits"]
    /\ UNCHANGED <<now, storeVars, kv, svcTtl, call>>

\* the guard of `hits` goes out of scope and the call returns (line 78)
LkDropHits(i) ==
    /\ pc[i] = "drop_hits"
    /\ pc' = [pc EXCEPT ![i] = "done"]
    /\ call' = [call EXCEPT ![i] =
                   [NoSvcCall EXCEPT !.res = call[i].res]]
    /\ UNCHANGED <<now, storeVars, kv, svcTtl>>

\* tests::set_hits: the counter is set under its mutex (lines 106-109)
LkSetHits(h) ==
    /\ \A j \in Threads : ~HoldsHits(j)
    /\ hits[Shared] # h
    /\ hits' = [hits EXCEPT ![Shared] = h]
    /\ UNCHANGED <<now, values, last, svcVars>>

\* the clock moves while the threads run
LkTick ==
    /\ now < MaxTime
    /\ now' = now + 1
    /\ UNCHANGED <<storeVars, svcVars>>

NextLock ==
    \/ \E i \in Threads, key \in LockKeys : LkStart(i, key)
    \/ \E i \in Threads : LkHits(i)
    \/ \E i \in Threads : LkValues(i)
    \/ \E i \in Threads : LkIncr(i)
    \/ \E i \in Threads : LkNow(i)
    \/ \E i \in Threads : LkEvict(i)
    \/ \E i \in Threads : LkInsert(i)
    \/ \E i \in Threads : LkDropValues(i)
    \/ \E i \in Threads : LkDropHits(i)
    \/ \E h \in HitsInputs : LkSetHits(h)
    \/ LkTick

\* InMemoryCache::new; thread A calls with the shortest ttl, thread B with the longest
InitLock ==
    /\ InitSvc
    /\ svcTtl = [i \in Services |-> IF i = "A" THEN 1 ELSE MaxTtl]

SpecLock == InitLock /\ [][NextLock]_vars

\* keys of the calls made while readers run
LiveKeys == {"k1"}
\* tests::get_values_length and tests::get_value, the readers of the map
Readers == {"get_values_length", "get_value"}

\* a reader is called: self.values.lock() is reached (lines 112 and 116-118)
RdStart(i, op, key) ==
    /\ pc[i] \in {"idle", "done"}
    /\ op \in Readers
    /\ pc' = [pc EXCEPT ![i] = "rd_lock"]
    /\ call' = [call EXCEPT ![i] = [NoSvcCall EXCEPT !.key = key, !.kvl = op]]
    /\ UNCHANGED <<now, storeVars, kv, svcTtl>>

\* self.values.lock().unwrap() of a reader: the map's mutex and no other
RdLock(i) ==
    /\ pc[i] = "rd_lock"
    /\ \A j \in Threads : ~HoldsValues(j)
    /\ pc' = [pc EXCEPT ![i] = "rd_read"]
    /\ UNCHANGED <<now, storeVars, kv, svcTtl, call>>

\* faulty variant: the reader counts its read, taking the counter's mutex while
\* it holds the map's
RdReadCounting(i) ==
    /\ pc[i] = "rd_read"
    /\ \A j \in Threads : ~HoldsHits(j)
    /\ hits' = [hits EXCEPT ![Shared] = hits[Shared] + 1]
    /\ pc' = [pc EXCEPT ![i] = "done"]
    /\ call' = [call EXCEPT ![i] = [NoSvcCall EXCEPT !.res = Ok("read")]]
    /\ UNCHANGED <<now, values, last, kv, svcTtl>>

\* .len() (line 112) or .get(key).unwrap().value.to_owned() (lines 119-122), then
\* the guard is dropped and the reader returns; unwrap() of a missing key panics,
\* which ends the reader and drops the guard as well
RdRead(i) ==
    /\ pc[i] = "rd_read"
    /\ pc' = [pc EXCEPT ![i] = "done"]
    /\ LET vals == values[Shared]
           k == call[i].key
           r == IF call[i].kvl = "get_values_length" THEN Ok(Cardinality(DOMAIN vals))
                ELSE IF k \in DOMAIN vals THEN Ok(vals[k].value)
                ELSE Err("panic")
       IN call' = [call EXCEPT ![i] = [NoSvcCall EXCEPT !.res = r]]
    /\ UNCHANGED <<now, storeVars, kv, svcTtl>>

\* the statements thread i executes without waiting
Running(i) ==
    \/ LkIncr(i) \/ LkNow(i) \/ LkEvict(i) \/ LkInsert(i)
    \/ LkDropValues(i) \/ LkDropHits(i)
    \/ RdRead(i)

\* a step of thread i inside a call
ThreadStep(i) == LkHits(i) \/ LkValues(i) \/ RdLock(i) \/ Running(i)

NextLockFair ==
    \/ \E i \in Threads, key \in LiveKeys : LkStart(i, key)
    \/ \E i \in Threads, key \in LiveKeys : RdStart(i, "get_value", key)
    \/ \E i \in Threads : RdStart(i, "get_values_length", "")
    \/ \E i \in Threads : ThreadStep(i)
    \/ LkSetHits(SweepPeriod - 1)
    \/ LkTick

\* fair scheduling: a thread that can execute its next statement does so, and a
\* thread waiting for a mutex that is free again and again gets it
FairLock ==
    \A i \in Threads :
       /\ WF_vars(Running(i))
       /\ SF_vars(LkHits(i))
       /\ SF_vars(LkValues(i))
       /\ SF_vars(RdLock(i))

SpecLockFair == InitLock /\ [][NextLockFair]_vars /\ FairLock

----------------------------------------------------------------------------
(* Entry Store claims, checked under SpecStore *)

\* spec glossary: an entry is stale at t iff not (t < inserted_at + ttl)
Stale(cv, t) == t >= cv.timestamp + cv.ttl

\* this step is a direct resolve call with a non-empty key
KeyedCall == last' # NoCall /\ last'.key # ""

\* this step is a direct resolve call with the empty key
EmptyKeyCall == last' # NoCall /\ last'.key = ""

\* this step is a resolve call whose post-increment counter is a multiple of 50,000
SweepCall == KeyedCall /\ hits'[last'.store] % SweepPeriod = 0

\* C1: a resolve with a non-empty key returns the stored value if and only if the
\* key has an entry that is live at the call's clock reading (now < inserted_at +
\* ttl), and the caller's supplied value otherwise; never the value of a stale
\* entry, on sweep calls as on ordinary ones.
C1_NoStaleHit ==
    [][KeyedCall =>
        LET vals == values[last'.store]
            k == last'.key
        IN last'.res =
             IF k \in DOMAIN vals /\ ~Stale(vals[k], now)
             THEN Ok(vals[k].value)
             ELSE Ok(last'.value)]_vars

\* C1 witness: a call found a stale entry under its key and returned the caller's value
C1_Witness ==
    /\ last.pre = "stale"
    /\ last.res = Ok(last.value)

\* C2: a resolve on a key whose entry is live returns the stored value and leaves
\* the entry's value, insertion time and ttl as they were (no renewal, supplied
\* value and ttl ignored).
C2_HitLeavesEntry ==
    [][KeyedCall =>
        LET vals == values[last'.store]
            k == last'.key
        IN (k \in DOMAIN vals /\ ~Stale(vals[k], now)) =>
              /\ last'.res = Ok(vals[k].value)
              /\ k \in DOMAIN values'[last'.store]
              /\ values'[last'.store][k] = vals[k]]_vars

\* C2 witness: a hit at a later second than the insertion, with another value and
\* another ttl supplied than the ones the entry keeps
C2_Witness ==
    /\ last.pre = "live"
    /\ last.res.ok
    /\ last.res.val # last.value
    /\ values[last.store][last.key].ttl # last.ttl
    /\ values[last.store][last.key].timestamp < now

\* C3: a resolve(key, value2, ttl2) that reads now >= s + t for the entry (_, s, t)
\* under key returns value2 and leaves exactly (value2, now, ttl2) under key.
C3_ExpiredReplaced ==
    [][KeyedCall =>
        LET vals == values[last'.store]
            k == last'.key
        IN (k \in DOMAIN vals /\ now >= vals[k].timestamp + vals[k].ttl) =>
              /\ last'.res = Ok(last'.value)
              /\ k \in DOMAIN values'[last'.store]
              /\ values'[last'.store][k] = CacheValue(last'.value, now, last'.ttl)]_vars

\* C3 witness: an expired entry has been replaced, at a later second, by a call
\* that supplied a ttl of its own
C3_Witness ==
    /\ last.pre = "stale"
    /\ now > 0
    /\ last.ttl > 0
    /\ values[last.store][last.key] = CacheValue(last.value, now, last.ttl)

\* C4: a resolve with the empty key fails with EmptyKey and changes neither the
\* map nor the call counter.
C4_EmptyKeyNoChange ==
    [][EmptyKeyCall =>
        /\ last'.res = Err("EmptyKey")
        /\ values' = values
        /\ hits' = hits]_vars

\* C4 witness: an empty-key call made when the next counted call would sweep and
\* the map holds a stale entry
C4_Witness ==
    /\ last.res = Err("EmptyKey")
    /\ hits[last.store] % SweepPeriod = SweepPeriod - 1
    /\ \E k \in DOMAIN values[last.store] : Stale(values[last.store][k], now)

\* every entry stale at the sweep call's clock reading is removed, whatever its key
\* (the requested key's stale entry is removed and replaced by the new one)
SweepRemovesStale ==
    LET i == last'.store
    IN \A k \in DOMAIN values[i] :
          Stale(values[i][k], now) =>
             \/ k \notin DOMAIN values'[i]
             \/ /\ k = last'.key
                /\ values'[i][k] = CacheValue(last'.value, now, last'.ttl)

\* C5 as stated: on every sweep call all stale entries are removed and afterwards
\* the store contains no entry that is stale at that clock reading.
C5_Original ==
    [][SweepCall =>
        /\ SweepRemovesStale
        /\ \A k \in DOMAIN values'[last'.store] :
              ~Stale(values'[last'.store][k], now)]_vars

\* C5 amended: on every sweep call all stale entries are removed, and afterwards
\* the only entry that can be stale at that clock reading is the one the call has
\* just inserted under the requested key with a supplied ttl of 0.
C5_SweepRemovesStale ==
    [][SweepCall =>
        /\ SweepRemovesStale
        /\ \A k \in DOMAIN values'[last'.store] :
              Stale(values'[last'.store][k], now) =>
                 /\ k = last'.key
                 /\ last'.ttl = 0
                 /\ values'[last'.store][k] = CacheValue(last'.value, now, 0)]_vars

\* C5 witness: the 100,000th call has swept away the stale entry of a key other
\* than the requested one
C5_Witness ==
    /\ last.sweep
    /\ hits[last.store] = SweepPeriod + SweepPeriod
    /\ \E k \in last.evicted : k # last.key

----------------------------------------------------------------------------
(* Cache Orchestrator claims, checked under SpecSvc *)

\* service i has just returned from resolve
JustReturned(i) == pc[i] = "done" /\ call[i].mem # "none"

\* this step is service i entering resolve
StartStep(i) == pc[i] \in {"idle", "done"} /\ call'[i].mem # "none"

\* this step is service i's query of the Persistent Store
KvLookupStep(i) == pc[i] = "kv_get" /\ pc'[i] # "kv_get"

\* the Entry Store of service i holds a live entry under key
MemLive(i, key) ==
    key \in DOMAIN values[i] /\ ~Stale(values[i][key], now)

\* the Persistent Store holds a value under key: redis has the key, unexpired,
\* with a non-empty string (the adapter's get reports an empty string as none)
KvHolds(key) == key \in DOMAIN kv /\ kv[key].value # ""

C7_SecondCallCached ==
    \A i \in Services :
       (JustReturned(i) /\ call[i].prev.some /\ now < call[i].prevUntil) =>
          /\ call[i].res = Ok(call[i].prev.val)
          /\ call[i].computes = 0

\* C7 witness: a second call answered from the Entry Store after the Persistent
\* Store's record has expired
C7_Witness ==
    \E i \in Services :
       /\ JustReturned(i)
       /\ call[i].prev.some
       /\ now < call[i].prevUntil
       /\ call[i].mem = "hit"
       /\ call[i].key \notin DOMAIN kv

\* C8: a resolve that finds a live entry in the Entry Store returns that entry's
\* value at once: no Persistent Store get or set, no compute, both tiers unchanged.
C8_MemoryHit ==
    [][\A i \in Services :
         (StartStep(i) /\ MemLive(i, call'[i].key)) =>
            /\ pc'[i] = "done"
            /\ call'[i].res = Ok(values[i][call'[i].key].value)
            /\ call'[i].computes = 0
            /\ call'[i].kvl = "none"
            /\ call'[i].wrote = <<>>
            /\ kv' = kv
            /\ values' = values
            /\ hits' = hits]_vars

\* C8 witness: a call answered from the Entry Store with a value the Persistent
\* Store does not hold
C8_Witness ==
    \E i \in Services :
       /\ JustReturned(i)
       /\ call[i].mem = "hit"
       /\ call[i].res.ok
       /\ (call[i].key \notin DOMAIN kv \/ kv[call[i].key].value # call[i].res.val)

\* C9: a resolve that finds no entry in the Entry Store and a value in the
\* Persistent Store returns that value, invokes no compute and leaves the Entry
\* Store as it was, the key still absent; a resolve of a key absent from the Entry
\* Store goes on to the Persistent Store.
C9_NoWarmUp ==
    [][\A i \in Services :
         /\ (KvLookupStep(i) /\ call[i].key \notin DOMAIN values[i]
               /\ KvHolds(call[i].key)) =>
               /\ pc'[i] = "done"
               /\ call'[i].res = Ok(kv[call[i].key].value)
               /\ call'[i].computes = 0
               /\ values' = values
               /\ hits' = hits
               /\ call[i].key \notin DOMAIN values'[i]
               /\ kv' = kv
         /\ (StartStep(i) /\ call'[i].key \notin DOMAIN values[i]) =>
               pc'[i] = "kv_get"]_vars

\* C9 witness: a call answered from the Persistent Store, the key absent from the
\* Entry Store after it
C9_Witness ==
    \E i \in Services :
       /\ JustReturned(i)
       /\ call[i].kvl = "hit"
       /\ call[i].res.ok
       /\ call[i].key \notin DOMAIN values[i]

\* C10: within a call compute is invoked at most once, and only after the Entry
\* Store lookup and then the Persistent Store lookup of that call have both
\* reported the key absent.
C10_ComputeOnlyOnMisses ==
    \A i \in Services :
       /\ call[i].computes <= 1
       /\ call[i].computes = 1 => (call[i].mem = "miss" /\ call[i].kvl = "miss")
       /\ call[i].kvl # "none" => call[i].mem = "miss"
       /\ pc[i] \in {"kv_get", "compute"} => call[i].computes = 0
       /\ pc[i] \in {"kv_resolve", "kv_setex", "mem_resolve"} => call[i].computes = 1

\* C10 witness: compute has just been invoked after both lookups missed
C10_Witness ==
    \E i \in Services :
       /\ pc[i] = "kv_resolve"
       /\ call[i].computes = 1
       /\ call[i].mem = "miss"
       /\ call[i].kvl = "miss"

----------------------------------------------------------------------------
(* Cache Orchestrator claims on failures, checked under SpecFail *)

\* C11: when the SETEX of the computed value fails, resolve returns the
\* KvCacheError failure and the Entry Store of the service is as the call found
\* it: same map (no entry inserted for the key), same call counter.
C11_KvWriteFailure ==
    \A i \in Services :
       LET c == call[i]
       IN (c.mem # "none" /\ c.wrote # <<>> /\ c.wrote[1] = "kv_fail") =>
            /\ pc[i] = "done"
            /\ c.wrote = <<"kv_fail">>
            /\ c.res = Err("KvCacheError")
            /\ values[i] = c.store0.values
            /\ hits[i] = c.store0.hits
            /\ InMemGet(values[i], c.key, now) = None

\* C11 witness: a call on a non-empty key has failed at its SETEX after an
\* earlier call of the service had written the Entry Store
C11_Witness ==
    \E i \in Services :
       /\ JustReturned(i)
       /\ call[i].wrote = <<"kv_fail">>
       /\ call[i].key # ""
       /\ call[i].computes = 1
       /\ hits[i] > 0

----------------------------------------------------------------------------
(* Claims on the two tiers together *)

\* C12: in every state reached by resolve calls and clock advances, a key with a
\* live entry in the Entry Store of a service has an entry in the Persistent Store.
C12_TierExistence ==
    \A i \in Services :
       \A k \in DOMAIN values[i] :
          ~Stale(values[i][k], now) => k \in DOMAIN kv

\* C13: when a resolve that computed returns Ok, the value returned, the value
\* the service's Entry Store holds under the key and the value the Persistent
\* Store holds under the key are the same, other services resolving the key at
\* the same time included.
C13_TierValues ==
    \A i \in Services :
       LET c == call[i]
       IN (JustReturned(i) /\ c.computes = 1 /\ c.res.ok) =>
            /\ c.key \in DOMAIN values[i]
            /\ values[i][c.key].value = c.res.val
            /\ c.key \in DOMAIN kv => kv[c.key].value = c.res.val

----------------------------------------------------------------------------
(* Persistent Store Adapter claims, checked under SpecKv *)

\* this step is the return of connection i from KvCache::resolve
KvReturnStep(i) == pc[i] \in {"kvd_get", "kvd_setex"} /\ pc'[i] = "done"

\* C14: a set_with_expiry on a key that holds a value returns that value and
\* leaves the stored value and its expiry as they are; on a key that holds none
\* it stores the payload's value with an expiry of ttl seconds and returns it;
\* whatever the sequence or interleaving of calls, a record stays the first
\* writer's until it expires.
C14_FirstWriterWins ==
    [][/\ \A i \in Services :
            KvReturnStep(i) =>
               LET k == call[i].key
               IN IF k \in DOMAIN kv
                  THEN /\ call'[i].res = Ok(kv[k].value)
                       /\ kv' = kv
                  ELSE /\ call'[i].res = Ok(call[i].value)
                       /\ kv' = RedisSetEx(kv, k, call[i].value, svcTtl[i], now)
       /\ \A k \in (DOMAIN kv) \cap (DOMAIN kv') : kv'[k] = kv[k]]_vars

\* C15: a GET or SETEX that fails on an established connection is surfaced: the
\* adapter's operation ends there with CommandFailed; a failed read is not taken
\* for a miss after which the call writes.
C15_FailuresSurfaced ==
    [][\A i \in Services :
         /\ (pc[i] = "kvd_get" /\ pc'[i] # "kvd_get" /\ call'[i].kvl = "get_failed") =>
               /\ pc'[i] = "done"
               /\ call'[i].res = Err("CommandFailed")
         /\ (pc[i] = "kvd_setex" /\ pc'[i] # "kvd_setex" /\ call'[i].wrote = <<"kv_fail">>) =>
               /\ pc'[i] = "done"
               /\ call'[i].res = Err("CommandFailed")
               /\ kv' = kv
         /\ (pc[i] = "kvd_setex" /\ pc'[i] # "kvd_setex" /\ call'[i].wrote = <<"kv_set">>) =>
               call[i].kvl # "get_failed"]_vars

----------------------------------------------------------------------------
(* Cache Orchestrator claims on expiry, checked under SpecSvc *)

\* service i has just returned Ok from a resolve of a key whose Entry Store
\* entry, left by an earlier resolve of that key, had expired when the call began
ReturnedAfterExpiry(i) ==
    /\ JustReturned(i)
    /\ call[i].res.ok
    /\ call[i].pre = "stale"

\* C16 as stated: a resolve of a key whose Entry Store entry has expired since the
\* previous resolve invokes compute again and returns the new result.
C16_Original ==
    \A i \in Services :
       ReturnedAfterExpiry(i) =>
          /\ call[i].computes = 1
          /\ call[i].res = Ok(call[i].value)

\* C16 amended: a resolve of a key whose Entry Store entry has expired since the
\* previous resolve does not answer from that entry; it returns the value the
\* Persistent Store holds, without computing and leaving the Entry Store as it
\* is, or, the Persistent Store holding none, computes again, returns the new
\* result and replaces the expired entry by it.
C16_ExpiredNotServed ==
    \A i \in Services :
       LET c == call[i]
       IN ReturnedAfterExpiry(i) =>
            /\ c.mem = "miss"
            /\ c.kvl \in {"hit", "miss"}
            /\ c.kvl = "hit" =>
                  /\ c.computes = 0
                  /\ KvHolds(c.key)
                  /\ c.res = Ok(kv[c.key].value)
                  /\ values[i] = c.store0.values
            /\ c.kvl = "miss" =>
                  /\ c.computes = 1
                  /\ c.res = Ok(c.value)
                  /\ values[i][c.key] = CacheValue(c.value, now, svcTtl[i])

\* C16 witness: the second resolve has computed again and returned a value other
\* than the one of the expired entry
C16_Witness ==
    \E i \in Services :
       /\ ReturnedAfterExpiry(i)
       /\ call[i].computes = 1
       /\ call[i].res.val # call[i].store0.values[call[i].key].value

----------------------------------------------------------------------------
(* Cache Orchestrator claims on racing calls, checked under SpecConc *)

\* service i is past its resolver call on the miss path
PastCompute(i) == pc[i] \in {"kv_resolve", "kv_setex", "mem_resolve"}

\* C17: nothing suppresses a computation: a call that has read both tiers as
\* missing invokes compute whatever the other calls do, so two calls racing
\* through the miss path for one key have both computed.
C17_NoDeduplication ==
    /\ \A i \in Services :
          (PastCompute(i) \/ (JustReturned(i) /\ call[i].kvl = "miss")) =>
             call[i].computes = 1
    /\ \A i, j \in Services :
          (i # j /\ PastCompute(i) /\ PastCompute(j) /\ call[i].key = call[j].key) =>
             call[i].computes + call[j].computes = 2

\* C17 witness: two calls for one key, absent from both tiers, have both read
\* both tiers and both computed before either has written, within one second
C17_Witness ==
    \E i, j \in Services :
       /\ i # j
       /\ call[i].key = call[j].key
       /\ call[i].fresh /\ call[j].fresh
       /\ pc[i] = "kv_resolve" /\ pc[j] = "kv_resolve"
       /\ call[i].computes = 1 /\ call[j].computes = 1
       /\ call[i].value # call[j].value
       /\ call[i].key \notin DOMAIN kv
       /\ call[i].key \notin DOMAIN values[i]
       /\ call[j].key \notin DOMAIN values[j]

----------------------------------------------------------------------------
(* Entry Store claims on concurrent calls, checked under SpecLock *)

\* C18: concurrent resolve calls on one store are serialized. At most one thread
\* is between the locks and the return; while it is there the store is what that
\* thread alone has made of the store it found, statement by statement, and what
\* it leaves is what one whole resolve makes of that store; where the map can be
\* read (its mutex free) it is either unchanged with an unchanged counter or
\* fully updated with the counter incremented.
C18_Atomicity ==
    /\ \A i, j \in Threads :
          i # j => /\ ~(HoldsHits(i) /\ HoldsHits(j))
                   /\ ~(HoldsValues(i) /\ HoldsValues(j))
    /\ \A i \in Threads :
          LET c == call[i]
              v0 == c.store0.values
              h0 == c.store0.hits
              r == InMemResolve(v0, h0, c.key, c.value, svcTtl[i], c.tset)
          IN /\ pc[i] \in {"values_lock", "incr"} =>
                   values[Shared] = v0 /\ hits[Shared] = h0
             /\ pc[i] \in {"now", "evict"} =>
                   values[Shared] = v0 /\ hits[Shared] = h0 + 1
             /\ pc[i] = "insert" =>
                   /\ values[Shared] = Evict(v0, h0 + 1, c.key, c.tset)
                   /\ hits[Shared] = h0 + 1
             /\ pc[i] \in {"drop_values", "drop_hits"} =>
                   /\ values[Shared] = r.values
                   /\ hits[Shared] = r.hits
                   /\ c.res = r.res

\* C18 witness: a thread has swept and inserted while the other thread, called
\* with the same key, waits for the counter's mutex
C18_Witness ==
    \E i, j \in Threads :
       /\ i # j
       /\ pc[i] = "drop_values"
       /\ pc[j] = "hits_lock"
       /\ call[i].key = call[j].key
       /\ hits[Shared] % SweepPeriod = 0
       /\ DOMAIN values[Shared] # DOMAIN call[i].store0.values

----------------------------------------------------------------------------
(* Cache Orchestrator claims on the keys it is given, checked under SpecFail *)

\* C19: for every key the call accepts, once the Persistent Store write has
\* succeeded the Entry Store write does not fail with EmptyKey: no call ends with
\* the computed value written to the Persistent Store, the Entry Store not
\* written and an error returned.
C19_NoHalfWrite ==
    \A i \in Services :
       LET c == call[i]
       IN /\ c.res # Err("InMemoryCacheError")
          /\ (JustReturned(i) /\ c.wrote # <<>> /\ c.wrote[1] = "kv_set") =>
                /\ c.res = Ok(c.value)
                /\ c.wrote = <<"kv_set", "mem">>

----------------------------------------------------------------------------
(* Entry Store claim on removals, checked under SpecStore *)

\* C20: a resolve call removes or replaces an entry only if the entry is stale at
\* the call's clock reading and the call is a sweep call or the entry is the one
\* under the requested key; live entries stay as they are, on sweep calls too, on
\* a non-sweep call so does every entry under another key, and no entry appears
\* under another key.
C20_RemovalCondition ==
    [][last' # NoCall =>
        LET i == last'.store
        IN /\ \A k \in DOMAIN values[i] :
                 (k \notin DOMAIN values'[i] \/ values'[i][k] # values[i][k]) =>
                    /\ Stale(values[i][k], now)
                    /\ SweepCall \/ k = last'.key
           /\ DOMAIN values'[i] \subseteq (DOMAIN values[i]) \cup {last'.key}]_vars

\* C20 witness: a call that was not a sweep has replaced the expired entry under
\* its key and left an expired entry under another key in the map
C20_Witness ==
    /\ last.pre = "stale"
    /\ ~last.sweep
    /\ last.evicted = {last.key}
    /\ \E k \in DOMAIN values[last.store] :
          /\ k # last.key
          /\ values[last.store][k].ttl > 0
          /\ Stale(values[last.store][k], now)

----------------------------------------------------------------------------
(* Entry Store claim on its two mutexes, checked under SpecLockFair *)

\* thread i is inside a call
MidCall(i) == pc[i] \notin {"idle", "done"}

\* C21: resolve takes the counter's mutex, then the map's, and releases both
\* before it returns; readers take the map's mutex only. So no state is reached
\* in which the threads inside calls all wait (each holding a mutex another one
\* wants), and under fair scheduling every call, of a resolver or of a reader,
\* returns.
C21_DeadlockFree ==
    /\ []((\E i \in Threads : MidCall(i)) =>
             \E j \in Threads : MidCall(j) /\ ENABLED ThreadStep(j))
    /\ [](\A i \in Threads : pc[i] = "done" => ~HoldsHits(i) /\ ~HoldsValues(i))
    /\ \A i \in Threads : MidCall(i) ~> (pc[i] = "done")

\* C21 witness: a resolver holds the counter's mutex and waits for the map's,
\* which a reader holds
C21_Witness ==
    \E i, j \in Threads :
       /\ pc[i] = "values_lock"
       /\ pc[j] = "rd_read"
       /\ HoldsHits(i)
       /\ HoldsValues(j)

====
